---- MODULE Spec2Model ----
(***************************************************************************)
(* A model of the transaction core of benthos:                             *)
(*   - the drop_on output decorator (internal/old/output/drop_on.go):      *)
(*     its forwarding loop, Consume, CloseAsync and WaitForClose, together *)
(*     with the upstream producer and the child output it talks to;        *)
(*   - the hot-swappable input wrapper of internal/manager;                *)
(*   - the websocket writer (internal/old/output/writer/websocket.go):     *)
(*     its stored connection handle under concurrent callers;              *)
(*   - the worker loops of the AsyncWriter adapter (connect, pull, write,  *)
(*     acknowledge);                                                       *)
(*   - the cache writer (Cache.WriteWithContext, Cache.writeMulti);        *)
(*   - the endpoint registry of the HTTP API (Type.RegisterEndpoint).      *)
(* Unbuffered Go channels are modelled as rendezvous: a send and its       *)
(* receive are one action. A select is one action per case.                *)
(***************************************************************************)
EXTENDS Integers, Sequences, FiniteSets, TLC

\* ---------------------------------------------------------------- bounds
MaxTx == 2          \* upstream transactions, numbered 1..MaxTx
MaxInputs == 3      \* inputs the wrapper is given over its life, 1..MaxInputs
MaxConns == 2       \* connections the websocket writer dials, 1..MaxConns
MaxConnFails == 2   \* failed Connect attempts of the AsyncWriter's workers
MaxParts == 3       \* parts of a batch given to the cache writer

Txs == 1..MaxTx
Inputs == 1..MaxInputs
Conns == 1..MaxConns
\* The goroutines that call Websocket.WriteWithContext.
Writers == {1, 2}
\* The worker loops of the AsyncWriter (its max in flight).
Workers == {1, 2}
\* What the key expression of the cache writer evaluates to.
Keys == {"a", "b"}
\* What its ttl expression evaluates to: nothing, a duration, no duration.
TTLStrings == {"", "1s", "soon"}
\* The inbound channels a caller may pass to Consume.
Chans == {1, 2}

\* A nil channel / no transaction.
Nil == 0

\* The results that travel on ack channels: nil (success), the child's own
\* error, and the synthetic "experienced back pressure beyond: d" error.
ResNil == "nil"
ResChildErr == "childErr"
ResBackPressure == "backPressure"

ChildResults == {ResNil, ResChildErr}

VARIABLES
    \* ---- dropOn fields
    onError,            \* d.onError
    onBackpressure,     \* d.onBackpressure (0: disabled, 1: some d > 0)
    transactionsIn,     \* d.transactionsIn (Nil or a channel)
    outClosed,          \* d.transactionsOut has been closed
    ctxDone,            \* d.ctx has been cancelled
    closedChan,         \* d.closedChan has been closed
    \* ---- the forwarding loop
    pc,                 \* position of the loop goroutine
    loops,              \* number of loop goroutines ever started
    ts,                 \* the transaction the loop holds (Nil if none)
    res,                \* the loop's local res
    resFrom,            \* the forwarded transaction whose result is in res
    childRes,           \* what <-resChan yielded, before any conversion
    gotBackPressure,    \* the loop's sticky flag
    reclaim,            \* reclaim goroutines blocked on <-resChan
    \* ---- upstream producer
    sent,               \* transactions sent on the inbound channel so far
    inClosed,           \* upstream closed the inbound channel
    ackLog,             \* per transaction, the acknowledgements delivered:
                        \* the result and the forwarded transaction it is of
    \* ---- child output
    childStarted,       \* the child's Consume succeeded
    childRecv,          \* the child is blocked receiving from transactionsOut
    childPending,       \* forwarded transactions the child owes a result for
    childGot,           \* per transaction, how often the child received it
    childCloseAsync,    \* d.wrapped.CloseAsync calls
    childClosed,        \* the child has fully closed
    childWaitRet,       \* what d.wrapped.WaitForClose returned to the loop
    \* ---- observations
    consumeChild,       \* the last call of dropOn.Consume called the child's
    consumeRet,         \* the last return of dropOn.Consume
    consumeOk,          \* some call of dropOn.Consume has returned nil
    dropped,            \* transactions dropped due to back pressure
    sticky,             \* a drop happened and no send was accepted since
    shutLog,            \* the shutdown steps of the loop, in order
    childLog,           \* the forwarded transactions, in the order the child
                        \* received them
    childOk,            \* transactions the child reported as written (its
                        \* result for them was nil)
    unsent,             \* transactions whose send to the child did not
                        \* complete (timed out, or refused while sticky)
    \* ---- input wrapper
    iwInput,            \* the currently active wrapped input
    iwInState,          \* per input: "unused", "running", "closing", "closed"
    iwRelayPc,          \* position of the forwarding relay
    iwRelayT,           \* the input whose transaction the relay holds
    iwOutClosed,        \* the outbound transaction channel has been closed
    iwSwapPc,           \* position of the caller of closeExistingInput/swapInput
    iwShut,             \* the wrapper's CloseAsync has been called
    iwDone,             \* the wrapper's shutdown is complete
    iwNewest,           \* the newest input the consumer got a transaction of
    iwStale,            \* the consumer got a transaction of an older input
                        \* after one of a newer input
    iwSawClosed,         \* the consumer has observed the channel closed
    \* ---- the websocket writer
    wsClient,           \* w.client: the stored connection, or Nil
    wsDials,            \* connections dialled so far (they are 1..wsDials)
    wsOpen,             \* the dialled connections not yet closed
    wsWPc,              \* per writer: where its WriteWithContext call is
    wsWClient,          \* per writer: the handle getWS returned to it
    wsWRet,             \* per writer: what its call returned
    wsCPc,              \* where the caller of ConnectWithContext is
    wsCRet,             \* what ConnectWithContext returned
    wsCloseCalled,      \* CloseAsync has been called
    wsCloser,           \* the goroutine CloseAsync started
    wsWaitSaw,          \* what held when WaitForClose returned nil after
                        \* CloseAsync
    wsLost,             \* connections that were the stored handle when a
                        \* failed write on another connection reset it
    \* ---- the AsyncWriter
    awPc,               \* per worker: where its loop is
    awConn,             \* per worker: it holds a live connection
    awT,                \* per worker: the transaction it pulled, or Nil
    awWRes,             \* per worker: what Write returned for awT
    awFails,            \* failed Connect attempts so far
    awEverConn,         \* some Connect has succeeded
    awSubmitted,        \* transactions submitted so far (1..awSubmitted)
    awPending,          \* submitted transactions no worker has pulled yet
    awOutage,           \* transactions submitted before any Connect succeeded
    awWritten,          \* per transaction: what Write returned for it
    awAck,              \* per transaction: the acknowledgements it got
    awShut,             \* CloseAsync has been called
    \* ---- the cache writer
    cwPc,               \* where the WriteWithContext call is
    cwMsg,              \* the batch: per part, its key and its ttl string
    cwI,                \* the part msg.Iter is at
    cwItems,            \* items: per key, the part stored under it (or Nil)
    cwSetMulti,         \* the arguments of the SetMulti calls of this call
    cwSet,              \* the parts given to Set by this call
    cwRet,              \* what WriteWithContext returned
    \* ---- the HTTP API
    apiEndpoints,       \* t.endpoints: per path its description, if any
    apiHandlers,        \* t.handlers: per path its handler, if any
    apiMux,             \* the routes of t.mux, in the order they were added
    apiLatest           \* per path, the handler of the most recent
                        \* RegisterEndpoint call for it, if any

dropVars == <<onError, onBackpressure, transactionsIn, outClosed, ctxDone,
              closedChan, pc, loops, ts, res, resFrom, childRes,
              gotBackPressure,
              reclaim, sent, inClosed, ackLog, childStarted, childRecv, childPending, childGot,
              childCloseAsync, childClosed, childWaitRet, consumeChild,
              consumeRet, consumeOk, dropped, sticky, shutLog, childLog,
              childOk, unsent>>

iwVars == <<iwInput, iwInState, iwRelayPc, iwRelayT, iwOutClosed, iwSwapPc,
            iwShut, iwDone, iwNewest, iwStale, iwSawClosed>>

wsVars == <<wsClient, wsDials, wsOpen, wsWPc, wsWClient, wsWRet, wsCPc,
            wsCRet, wsCloseCalled, wsCloser, wsWaitSaw, wsLost>>

awVars == <<awPc, awConn, awT, awWRes, awFails, awEverConn, awSubmitted,
            awPending, awOutage, awWritten, awAck, awShut>>

cwVars == <<cwPc, cwMsg, cwI, cwItems, cwSetMulti, cwSet, cwRet>>

\* What the actions of one component leave alone.
regVars == <<apiEndpoints, apiHandlers, apiMux, apiLatest>>

\* What the actions of one component leave alone.
notDropVars == <<iwVars, wsVars, awVars, cwVars, regVars>>
notIwVars == <<dropVars, wsVars, awVars, cwVars, regVars>>
notWsVars == <<dropVars, iwVars, awVars, cwVars, regVars>>
notAwVars == <<dropVars, iwVars, wsVars, cwVars, regVars>>
notCwVars == <<dropVars, iwVars, wsVars, awVars, regVars>>
notRegVars == <<dropVars, iwVars, wsVars, awVars, cwVars>>

vars == <<dropVars, iwVars, wsVars, awVars, cwVars, regVars>>

\* ------------------------------------------------------------ newDropOn
newDropOn ==
    /\ onError \in BOOLEAN
    /\ onBackpressure \in {0, 1}
    /\ transactionsIn = Nil
    /\ outClosed = FALSE
    /\ ctxDone = FALSE
    /\ closedChan = FALSE
    /\ pc = "none"
    /\ loops = 0
    /\ ts = Nil
    /\ res = ResNil
    /\ resFrom = Nil
    /\ childRes = "none"
    /\ gotBackPressure = FALSE
    /\ reclaim = 0
    /\ sent = 0
    /\ inClosed = FALSE
    /\ ackLog = [t \in Txs |-> <<>>]
    /\ childStarted = FALSE
    /\ childRecv = FALSE
    /\ childPending = {}
    /\ childGot = [t \in Txs |-> 0]
    /\ childCloseAsync = 0
    /\ childClosed = FALSE
    /\ childWaitRet = "none"
    /\ consumeChild = FALSE
    /\ consumeRet = "none"
    /\ consumeOk = FALSE
    /\ dropped = {}
    /\ sticky = FALSE
    /\ shutLog = <<>>
    /\ childLog = <<>>
    /\ childOk = {}
    /\ unsent = {}

\* ------------------------------------------------------------ wrapInput
\* The wrapper starts with its first input bound and its relay running.
wrapInput ==
    /\ iwInput = 1
    /\ iwInState = [i \in Inputs |-> IF i = 1 THEN "running" ELSE "unused"]
    /\ iwRelayPc = "read"
    /\ iwRelayT = Nil
    /\ iwOutClosed = FALSE
    /\ iwSwapPc = "idle"
    /\ iwShut = FALSE
    /\ iwDone = FALSE
    /\ iwNewest = Nil
    /\ iwStale = FALSE
    /\ iwSawClosed = FALSE

\* ----------------------------------------------------------- NewWebsocket
\* A new writer has no connection.
NewWebsocket ==
    /\ wsClient = Nil
    /\ wsDials = 0
    /\ wsOpen = {}
    /\ wsWPc = [w \in Writers |-> "idle"]
    /\ wsWClient = [w \in Writers |-> Nil]
    /\ wsWRet = [w \in Writers |-> "none"]
    /\ wsCPc = "idle"
    /\ wsCRet = "none"
    /\ wsCloseCalled = FALSE
    /\ wsCloser = "none"
    /\ wsWaitSaw = "none"
    /\ wsLost = {}

\* --------------------------------------------------------- NewAsyncWriter
\* After Consume: every worker loop is running and not connected.
NewAsyncWriter ==
    /\ awPc = [w \in Workers |-> "connect"]
    /\ awConn = [w \in Workers |-> FALSE]
    /\ awT = [w \in Workers |-> Nil]
    /\ awWRes = [w \in Workers |-> "none"]
    /\ awFails = 0
    /\ awEverConn = FALSE
    /\ awSubmitted = 0
    /\ awPending = {}
    /\ awOutage = {}
    /\ awWritten = [t \in Txs |-> "none"]
    /\ awAck = [t \in Txs |-> <<>>]
    /\ awShut = FALSE

\* ---------------------------------------------------------------- NewCache
\* A new cache writer: no call made yet.
NewCache ==
    /\ cwPc = "idle"
    /\ cwMsg = <<>>
    /\ cwI = 0
    /\ cwItems = [k \in Keys |-> Nil]
    /\ cwSetMulti = <<>>
    /\ cwSet = <<>>
    /\ cwRet = "none"

\* ------------------------------------------------------------------ api.New
\* The paths a caller registers. A path is its sequence of segments.
Paths == {<<"ping">>, <<"stats">>, <<"benthos", "ping">>}

\* conf.RootPath, at its default.
RootPath == <<"benthos">>

\* The handler functions and the descriptions a caller passes.
HandlerFuncs == {"h1", "h2"}
Descs == {"d1", "d2"}

\* No entry for a key of t.endpoints or t.handlers.
Absent == ""

\* A new API: empty maps, a router without routes.
NewAPI ==
    /\ apiEndpoints = [p \in Paths |-> Absent]
    /\ apiHandlers = [p \in Paths |-> Absent]
    /\ apiMux = <<>>
    /\ apiLatest = [p \in Paths |-> Absent]

Init ==
    /\ newDropOn /\ wrapInput /\ NewWebsocket /\ NewAsyncWriter /\ NewCache
    /\ NewAPI

\* ------------------------------------------------------------ helpers
cfgVars == <<onError, onBackpressure>>
upVars == <<sent, inClosed>>
childCtlVars == <<childStarted, childCloseAsync, childClosed, childWaitRet>>
apiVars == <<consumeChild, consumeRet, consumeOk>>
histVars == <<childLog, childOk, unsent>>

\* (mutation) the duration test written as >= 0.
BackPressureEnabledAlways == onBackpressure >= 0

\* The back pressure branch of the loop is taken when a duration is set.
BackPressureEnabled == onBackpressure > 0

\* (mutation) the onError test of the drop result inverted.
BackPressureResInverted == IF onError THEN ResBackPressure ELSE ResNil

\* The result of a transaction dropped due to back pressure.
BackPressureRes == IF onError THEN ResNil ELSE ResBackPressure

\* (mutation) the child's failure is passed on unchanged.
OnErrorFilterOff(r) == r

\* A failure is replaced by success when dropping on error.
OnErrorFilter(r) == IF r # ResNil /\ onError THEN ResNil ELSE r

\* (mutation) the sticky flag is not consulted: always the blocking select.
SendModeBlocking(sticked) == "send"

\* Which select the loop uses to hand a transaction to the child.
SendMode(sticked) ==
    IF BackPressureEnabled /\ sticked THEN "trysend" ELSE "send"

\* (mutation) the wait for the child's result does not race against d.ctx.
CtxCaseNoWait(p) == p \in {"recv", "send", "ack"}

\* The selects of the loop that have a <-d.ctx.Done() case.
CtxCase(p) == p \in {"recv", "send", "wait", "ack"}

\* (mutation) the loop acknowledges again instead of receiving.
AfterAckAgain == "ack"

\* Where the loop goes once ts.Ack has delivered the acknowledgement.
AfterAck == "recv"

\* (mutation) the deferred shutdown does not await the child.
DeferNextNoWait(step) ==
    CASE step = "closeOut"    -> "closeAsync"
      [] step = "closeAsync"  -> "closeClosed"
      [] step = "waitChild"   -> "closeClosed"
      [] step = "closeClosed" -> "done"

\* The deferred shutdown of the loop, step by step.
DeferNext(step) ==
    CASE step = "closeOut"    -> "closeAsync"
      [] step = "closeAsync"  -> "waitChild"
      [] step = "waitChild"   -> "closeClosed"
      [] step = "closeClosed" -> "done"

\* (mutation) the flag is a local of the loop body: every iteration starts
\* with it clear.
KeepFlagReset(g) == FALSE

\* gotBackPressure is declared outside the for loop: an iteration starts
\* with the value the previous one left.
KeepFlag(g) == g

\* (mutation) a dropped transaction is not acknowledged: the loop continues
\* with the next receive.
AfterDropContinue == "recv"

\* (mutation) a dropped transaction is offered to the child again.
AfterDropRetry == "send"

\* (mutation) a dropped transaction is offered to the child once more,
\* without blocking.
AfterDropTrySend == "trysend"

\* Where the loop goes once it has decided to drop a transaction: the
\* closure returns true and the loop acknowledges.
AfterDrop == "ack"

\* (mutation) a reclaim goroutine is started when the send times out too.
SendTimeoutSpawnsAlways == TRUE

\* Whether a reclaim goroutine is started when the timer fires during the
\* send: the ticker case of the send select starts none.
SendTimeoutSpawns == FALSE

\* (mutation) the loop ends on a closed inbound channel without running
\* its deferred shutdown.
OnInClosedSkip == "done"

\* Where the loop goes when the inbound channel is closed: it returns, which
\* runs the deferred shutdown.
OnInClosed == "closeOut"

\* (mutation) the started test never fires.
AlreadyStartedNever == FALSE

\* d.transactionsIn != nil
AlreadyStarted == transactionsIn # Nil

\* --------------------------------------------------- the forwarding loop
\* case ts, open = <-d.transactionsIn, open: upstream hands over its next
\* transaction.
LoopRecv ==
    /\ pc = "recv"
    /\ ~inClosed
    /\ sent < MaxTx
    /\ sent' = sent + 1
    /\ ts' = sent + 1
    /\ res' = ResNil
    /\ resFrom' = Nil
    /\ childRes' = "none"
    /\ gotBackPressure' = KeepFlag(gotBackPressure)
    /\ pc' = SendMode(KeepFlag(gotBackPressure))
    /\ UNCHANGED <<notDropVars, histVars, cfgVars, transactionsIn, outClosed, ctxDone, closedChan,
                   loops, reclaim, inClosed, ackLog,
                   childCtlVars, childRecv, childPending, childGot, apiVars,
                   dropped, sticky, shutLog>>

\* case ts, open = <-d.transactionsIn, !open: return.
LoopRecvClosed ==
    /\ pc = "recv"
    /\ inClosed
    /\ pc' = OnInClosed
    /\ UNCHANGED <<notDropVars, histVars, cfgVars, transactionsIn, outClosed, ctxDone, closedChan,
                   loops, ts, res, resFrom, childRes, gotBackPressure, reclaim, upVars,
                   ackLog, childCtlVars, childRecv, childPending, childGot,
                   apiVars, dropped, sticky, shutLog>>

\* case <-d.ctx.Done(): return, in any select that has the case. For ts.Ack
\* this is Ack returning the context's error while d.ctx.Err() != nil.
LoopCtxDone ==
    /\ CtxCase(pc)
    /\ ctxDone
    /\ res' = ResNil
    /\ resFrom' = Nil
    /\ childRes' = "none"
    /\ pc' = "closeOut"
    /\ UNCHANGED <<notDropVars, histVars, cfgVars, transactionsIn, outClosed, ctxDone, closedChan,
                   loops, ts, gotBackPressure, reclaim, upVars, ackLog,
                   childCtlVars, childRecv, childPending, childGot, apiVars,
                   dropped, sticky, shutLog>>

\* case d.transactionsOut <- message.NewTransaction(ts.Payload, resChan), in
\* the blocking selects: the child receives the forwarded transaction.
LoopSend ==
    /\ pc = "send"
    /\ childRecv
    /\ ~outClosed
    /\ childRecv' = FALSE
    /\ childPending' = childPending \cup {ts}
    /\ childGot' = [childGot EXCEPT ![ts] = @ + 1]
    /\ childLog' = Append(childLog, ts)
    /\ sticky' = FALSE
    /\ pc' = "wait"
    /\ UNCHANGED <<notDropVars, childOk, unsent, cfgVars, transactionsIn, outClosed, ctxDone, closedChan,
                   loops, ts, res, resFrom, childRes, gotBackPressure, reclaim, upVars,
                   ackLog, childCtlVars, apiVars, dropped, shutLog>>

\* case <-ticker.C while sending: the transaction is dropped.
LoopSendTicker ==
    /\ pc = "send"
    /\ BackPressureEnabled
    /\ gotBackPressure' = TRUE
    /\ res' = OnErrorFilter(BackPressureRes)
    /\ dropped' = dropped \cup {ts}
    /\ sticky' = TRUE
    /\ unsent' = unsent \cup {ts}
    /\ reclaim' = IF SendTimeoutSpawns THEN reclaim + 1 ELSE reclaim
    /\ pc' = AfterDrop
    /\ UNCHANGED <<notDropVars, childLog, childOk, cfgVars, transactionsIn, outClosed, ctxDone, closedChan,
                   loops, ts, resFrom, childRes, upVars, ackLog, childCtlVars,
                   childRecv, childPending, childGot, apiVars, shutLog>>

\* The non-blocking select made while gotBackPressure is set, send case.
LoopTrySend ==
    /\ pc = "trysend"
    /\ childRecv
    /\ ~outClosed
    /\ childRecv' = FALSE
    /\ childPending' = childPending \cup {ts}
    /\ childGot' = [childGot EXCEPT ![ts] = @ + 1]
    /\ childLog' = Append(childLog, ts)
    /\ gotBackPressure' = FALSE
    /\ sticky' = FALSE
    /\ pc' = "wait"
    /\ UNCHANGED <<notDropVars, childOk, unsent, cfgVars, transactionsIn, outClosed, ctxDone, closedChan,
                   loops, ts, res, resFrom, childRes, reclaim, upVars, ackLog,
                   childCtlVars, apiVars, dropped, shutLog>>

\* The non-blocking select made while gotBackPressure is set, default case:
\* the flag stays set, the wait is skipped and the transaction is dropped.
LoopTrySendDefault ==
    /\ pc = "trysend"
    /\ ~childRecv
    /\ res' = OnErrorFilter(BackPressureRes)
    /\ dropped' = dropped \cup {ts}
    /\ sticky' = TRUE
    /\ unsent' = unsent \cup {ts}
    /\ pc' = AfterDrop
    /\ UNCHANGED <<notDropVars, childLog, childOk, cfgVars, transactionsIn, outClosed, ctxDone, closedChan,
                   loops, ts, resFrom, childRes, gotBackPressure, reclaim, upVars,
                   ackLog, childCtlVars, childRecv, childPending, childGot,
                   apiVars, shutLog>>

\* case res = <-resChan: the child sends the result of one of the
\* transactions it holds; the loop is the receiver.
LoopWaitRes ==
    /\ pc = "wait"
    /\ \E t \in childPending, r \in ChildResults :
        /\ childPending' = childPending \ {t}
        /\ res' = OnErrorFilter(r)
        /\ resFrom' = t
        /\ childRes' = r
        /\ childOk' = IF r = ResNil THEN childOk \cup {t} ELSE childOk
    /\ pc' = "ack"
    /\ UNCHANGED <<notDropVars, childLog, unsent, cfgVars, transactionsIn, outClosed, ctxDone, closedChan,
                   loops, ts, gotBackPressure, reclaim, upVars, ackLog,
                   childCtlVars, childRecv, childGot, apiVars, dropped,
                   sticky, shutLog>>

\* case <-ticker.C while waiting for the result: a reclaim goroutine is
\* started and the transaction is dropped.
LoopWaitTicker ==
    /\ pc = "wait"
    /\ BackPressureEnabled
    /\ gotBackPressure' = TRUE
    /\ reclaim' = reclaim + 1
    /\ res' = OnErrorFilter(BackPressureRes)
    /\ dropped' = dropped \cup {ts}
    /\ sticky' = TRUE
    /\ pc' = AfterDrop
    /\ UNCHANGED <<notDropVars, histVars, cfgVars, transactionsIn, outClosed, ctxDone, closedChan,
                   loops, ts, resFrom, childRes, upVars, ackLog, childCtlVars,
                   childRecv, childPending, childGot, apiVars, shutLog>>

\* The reclaim goroutine's <-resChan receives a result of the child.
ReclaimRes ==
    /\ reclaim > 0
    /\ ~childClosed
    /\ \E t \in childPending, r \in ChildResults :
        /\ childPending' = childPending \ {t}
        /\ childOk' = IF r = ResNil THEN childOk \cup {t} ELSE childOk
    /\ reclaim' = reclaim - 1
    /\ UNCHANGED <<notDropVars, childLog, unsent, cfgVars, transactionsIn, outClosed, ctxDone, closedChan,
                   pc, loops, ts, res, resFrom, childRes, gotBackPressure, upVars,
                   ackLog, childCtlVars, childRecv, childGot, apiVars,
                   dropped, sticky, shutLog>>

\* ts.Ack(d.ctx, res) delivers res on the transaction's ack channel.
LoopAck ==
    /\ pc = "ack"
    /\ ackLog' = [ackLog EXCEPT ![ts] = Append(@, [res |-> res, from |-> resFrom])]
    /\ res' = ResNil
    /\ resFrom' = Nil
    /\ childRes' = "none"
    /\ pc' = AfterAck
    /\ UNCHANGED <<notDropVars, histVars, cfgVars, transactionsIn, outClosed, ctxDone, closedChan,
                   loops, ts, gotBackPressure, reclaim, upVars, childCtlVars,
                   childRecv, childPending, childGot, apiVars, dropped,
                   sticky, shutLog>>

\* defer: close(d.transactionsOut)
DeferCloseOut ==
    /\ pc = "closeOut"
    /\ outClosed' = TRUE
    /\ shutLog' = Append(shutLog, "closeOut")
    /\ pc' = DeferNext(pc)
    /\ UNCHANGED <<notDropVars, histVars, cfgVars, transactionsIn, ctxDone, closedChan, loops, ts,
                   res, resFrom, childRes, gotBackPressure, reclaim, upVars, ackLog,
                   childCtlVars, childRecv, childPending, childGot, apiVars,
                   dropped, sticky>>

\* defer: d.wrapped.CloseAsync()
DeferCloseAsync ==
    /\ pc = "closeAsync"
    /\ childCloseAsync' = childCloseAsync + 1
    /\ shutLog' = Append(shutLog, "closeAsync")
    /\ pc' = DeferNext(pc)
    /\ UNCHANGED <<notDropVars, histVars, cfgVars, transactionsIn, outClosed, ctxDone, closedChan,
                   loops, ts, res, resFrom, childRes, gotBackPressure, reclaim, upVars,
                   ackLog, childStarted, childClosed,
                   childWaitRet, childRecv, childPending, childGot, apiVars,
                   dropped, sticky>>

\* defer: _ = d.wrapped.WaitForClose(shutdown.MaximumShutdownWait()); the
\* child has closed and the call returns nil.
DeferWaitClosed ==
    /\ pc = "waitChild"
    /\ childClosed
    /\ childWaitRet' = "nil"
    /\ shutLog' = Append(shutLog, "waitChild")
    /\ pc' = DeferNext(pc)
    /\ UNCHANGED <<notDropVars, histVars, cfgVars, transactionsIn, outClosed, ctxDone, closedChan,
                   loops, ts, res, resFrom, childRes, gotBackPressure, reclaim, upVars,
                   ackLog, childStarted, childCloseAsync,
                   childClosed, childRecv, childPending, childGot, apiVars,
                   dropped, sticky>>

\* defer: the same call returns ErrTimeout because the maximum shutdown wait
\* elapsed first; the error is discarded.
DeferWaitTimeout ==
    /\ pc = "waitChild"
    /\ ~childClosed
    /\ childWaitRet' = "timeout"
    /\ shutLog' = Append(shutLog, "waitChild")
    /\ pc' = DeferNext(pc)
    /\ UNCHANGED <<notDropVars, histVars, cfgVars, transactionsIn, outClosed, ctxDone, closedChan,
                   loops, ts, res, resFrom, childRes, gotBackPressure, reclaim, upVars,
                   ackLog, childStarted, childCloseAsync,
                   childClosed, childRecv, childPending, childGot, apiVars,
                   dropped, sticky>>

\* defer: close(d.closedChan)
DeferCloseClosed ==
    /\ pc = "closeClosed"
    /\ closedChan' = TRUE
    /\ shutLog' = Append(shutLog, "closeClosed")
    /\ pc' = DeferNext(pc)
    /\ UNCHANGED <<notDropVars, histVars, cfgVars, transactionsIn, outClosed, ctxDone, loops, ts,
                   res, resFrom, childRes, gotBackPressure, reclaim, upVars, ackLog,
                   childCtlVars, childRecv, childPending, childGot, apiVars,
                   dropped, sticky>>

loopVars == <<pc, loops, ts, res, resFrom, childRes, gotBackPressure,
              reclaim>>
obsVars == <<dropped, sticky, shutLog>>

\* ------------------------------------------------- the child's Consume
\* d.wrapped.Consume(d.transactionsOut): a started child refuses, otherwise
\* the child decides.
ChildConsumeResults ==
    IF childStarted THEN {"childAlreadyStarted"} ELSE {"nil", "childErr"}

\* ------------------------------------------------------- dropOn.Consume
Consume(ch) ==
    /\ IF AlreadyStarted
       THEN /\ consumeRet' = "ErrAlreadyStarted"
            /\ consumeChild' = FALSE
            /\ UNCHANGED <<transactionsIn, pc, loops, childStarted, consumeOk>>
       ELSE /\ consumeChild' = TRUE
            /\ \E r \in ChildConsumeResults :
                IF r # "nil"
                THEN /\ consumeRet' = r
                     /\ UNCHANGED <<transactionsIn, pc, loops, childStarted,
                                    consumeOk>>
                ELSE /\ childStarted' = TRUE
                     /\ transactionsIn' = ch
                     /\ loops' = loops + 1
                     /\ pc' = "recv"
                     /\ consumeRet' = "nil"
                     /\ consumeOk' = TRUE
    /\ UNCHANGED <<notDropVars, histVars, cfgVars, outClosed, ctxDone, closedChan, ts, res, resFrom,
                   childRes, gotBackPressure, reclaim, upVars, ackLog,
                   childCloseAsync, childClosed, childWaitRet, childRecv,
                   childPending, childGot, obsVars>>

\* ---------------------------------------------------- dropOn.CloseAsync
CloseAsync ==
    /\ ctxDone' = TRUE
    /\ UNCHANGED <<notDropVars, histVars, cfgVars, transactionsIn, outClosed, closedChan, loopVars,
                   upVars, ackLog, childCtlVars, childRecv, childPending,
                   childGot, apiVars, obsVars>>

\* -------------------------------------------------- dropOn.WaitForClose
\* What a call of WaitForClose can return in the current state: the select
\* takes <-d.closedChan only once the channel is closed, and the timer case
\* otherwise (or as well, for a timeout that has already elapsed).
WaitForClose ==
    IF closedChan THEN {"nil", "ErrTimeout"} ELSE {"ErrTimeout"}

\* ------------------------------------------------------ the environment
\* The child output starts to receive from transactionsOut.
ChildReady ==
    /\ childStarted
    /\ ~childClosed
    /\ ~childRecv
    /\ childRecv' = TRUE
    /\ UNCHANGED <<notDropVars, histVars, cfgVars, transactionsIn, outClosed, ctxDone, closedChan,
                   loopVars, upVars, ackLog, childCtlVars, childPending,
                   childGot, apiVars, obsVars>>

\* The child output stops receiving (it is busy, or lost its connection).
ChildBusy ==
    /\ childRecv
    /\ childRecv' = FALSE
    /\ UNCHANGED <<notDropVars, histVars, cfgVars, transactionsIn, outClosed, ctxDone, closedChan,
                   loopVars, upVars, ackLog, childCtlVars, childPending,
                   childGot, apiVars, obsVars>>

\* The child output finishes closing, after its CloseAsync was called or
\* its inbound channel was closed.
ChildClose ==
    /\ childCloseAsync > 0 \/ outClosed
    /\ ~childClosed
    /\ childClosed' = TRUE
    /\ childRecv' = FALSE
    /\ UNCHANGED <<notDropVars, histVars, cfgVars, transactionsIn, outClosed, ctxDone, closedChan,
                   loopVars, upVars, ackLog, childStarted,
                   childCloseAsync, childWaitRet, childPending, childGot,
                   apiVars, obsVars>>

\* The upstream producer closes the inbound channel.
UpstreamClose ==
    /\ ~inClosed
    /\ inClosed' = TRUE
    /\ UNCHANGED <<notDropVars, histVars, cfgVars, transactionsIn, outClosed, ctxDone, closedChan,
                   loopVars, sent, ackLog, childCtlVars, childRecv,
                   childPending, childGot, apiVars, obsVars>>

\* ------------------------------------------------------- specification
Next ==
    \/ \E ch \in Chans : Consume(ch)
    \/ CloseAsync
    \/ LoopRecv
    \/ LoopRecvClosed
    \/ LoopCtxDone
    \/ LoopSend
    \/ LoopSendTicker
    \/ LoopTrySend
    \/ LoopTrySendDefault
    \/ LoopWaitRes
    \/ LoopWaitTicker
    \/ ReclaimRes
    \/ LoopAck
    \/ DeferCloseOut
    \/ DeferCloseAsync
    \/ DeferWaitClosed
    \/ DeferWaitTimeout
    \/ DeferCloseClosed
    \/ ChildReady
    \/ ChildBusy
    \/ ChildClose
    \/ UpstreamClose

Spec == Init /\ [][Next]_vars

\* --------------------------------------------------------- fairness
\* Go's select picks among its ready cases at random, so a case that is
\* ready again and again is eventually taken: strong fairness for the
\* <-d.ctx.Done() cases. The non-blocking select and the deferred calls are
\* steps the goroutine takes by itself; the child's WaitForClose is assumed
\* to return.
Fairness ==
    /\ SF_vars(LoopCtxDone)
    /\ WF_vars(LoopRecvClosed)
    /\ WF_vars(LoopTrySend \/ LoopTrySendDefault)
    /\ WF_vars(DeferCloseOut)
    /\ WF_vars(DeferCloseAsync)
    /\ WF_vars(DeferWaitClosed \/ DeferWaitTimeout)
    /\ WF_vars(DeferCloseClosed)

FairSpec == Spec /\ Fairness

\* ================================================== the input wrapper
\* (mutation) swapInput leaves the relay bound to the input it had.
IWSwapTargetKeep(new) == iwInput

\* The input the relay is bound to once swapInput(new) has returned.
IWSwapTarget(new) == new

\* (mutation) the relay takes the end of any input for the end of the
\* stream and goes on to close the outbound channel.
IWOnInputClosedExit == "closeInput"

\* What the relay does when the input it reads from has closed while the
\* wrapper itself is open: it keeps waiting for the next input.
IWOnInputClosed == "read"

\* The relay reads the next transaction of the input currently bound.
IWRelayRead ==
    /\ iwRelayPc = "read"
    /\ iwInState[iwInput] \in {"running", "closing"}
    /\ iwRelayT' = iwInput
    /\ iwRelayPc' = "forward"
    /\ UNCHANGED <<notIwVars, iwInput, iwInState, iwOutClosed, iwSwapPc,
                   iwShut, iwDone, iwNewest, iwStale, iwSawClosed>>

\* The relay finds the bound input closed.
IWRelayInputClosed ==
    /\ iwRelayPc = "read"
    /\ iwInState[iwInput] = "closed"
    /\ iwRelayPc' = IWOnInputClosed
    /\ UNCHANGED <<notIwVars, iwInput, iwInState, iwRelayT, iwOutClosed,
                   iwSwapPc, iwShut, iwDone, iwNewest, iwStale, iwSawClosed>>

\* The relay republishes the transaction it holds on the outbound channel;
\* the consumer receives and acknowledges it.
IWRelayForward ==
    /\ iwRelayPc = "forward"
    /\ ~iwOutClosed
    /\ iwNewest' = IF iwRelayT > iwNewest THEN iwRelayT ELSE iwNewest
    /\ iwStale' = (iwStale \/ iwRelayT < iwNewest)
    /\ iwRelayT' = Nil
    /\ iwRelayPc' = "read"
    /\ UNCHANGED <<notIwVars, iwInput, iwInState, iwOutClosed, iwSwapPc,
                   iwShut, iwDone, iwSawClosed>>

\* The relay notices the wrapper's CloseAsync; a transaction it holds is
\* given up (its acknowledgement fails).
IWRelayShutdown ==
    /\ iwRelayPc \in {"read", "forward"}
    /\ iwShut
    /\ iwRelayT' = Nil
    /\ iwRelayPc' = "closeInput"
    /\ UNCHANGED <<notIwVars, iwInput, iwInState, iwOutClosed, iwSwapPc,
                   iwShut, iwDone, iwNewest, iwStale, iwSawClosed>>

\* Shutdown: the relay closes the currently active input ...
IWRelayCloseInput ==
    /\ iwRelayPc = "closeInput"
    /\ iwInState' = [iwInState EXCEPT ![iwInput] =
                        IF @ = "running" THEN "closing" ELSE @]
    /\ iwRelayPc' = "waitInput"
    /\ UNCHANGED <<notIwVars, iwInput, iwRelayT, iwOutClosed, iwSwapPc,
                   iwShut, iwDone, iwNewest, iwStale, iwSawClosed>>

\* ... awaits it ...
IWRelayWaitInput ==
    /\ iwRelayPc = "waitInput"
    /\ iwInState[iwInput] = "closed"
    /\ iwRelayPc' = "closeOut"
    /\ UNCHANGED <<notIwVars, iwInput, iwInState, iwRelayT, iwOutClosed,
                   iwSwapPc, iwShut, iwDone, iwNewest, iwStale, iwSawClosed>>

\* ... closes the outbound channel ...
IWRelayCloseOut ==
    /\ iwRelayPc = "closeOut"
    /\ iwOutClosed' = TRUE
    /\ iwRelayPc' = "complete"
    /\ UNCHANGED <<notIwVars, iwInput, iwInState, iwRelayT, iwSwapPc, iwShut,
                   iwDone, iwNewest, iwStale, iwSawClosed>>

\* ... and reports the shutdown complete.
IWRelayComplete ==
    /\ iwRelayPc = "complete"
    /\ iwDone' = TRUE
    /\ iwRelayPc' = "done"
    /\ UNCHANGED <<notIwVars, iwInput, iwInState, iwRelayT, iwOutClosed,
                   iwSwapPc, iwShut, iwNewest, iwStale, iwSawClosed>>

\* closeExistingInput(ctx): signals the current input to close ...
closeExistingInput ==
    /\ iwSwapPc = "idle"
    /\ iwInput < MaxInputs
    /\ iwInState' = [iwInState EXCEPT ![iwInput] =
                        IF @ = "running" THEN "closing" ELSE @]
    /\ iwSwapPc' = "waiting"
    /\ UNCHANGED <<notIwVars, iwInput, iwRelayPc, iwRelayT, iwOutClosed,
                   iwShut, iwDone, iwNewest, iwStale, iwSawClosed>>

\* ... and returns once that input reports closed.
closeExistingInputReturn ==
    /\ iwSwapPc = "waiting"
    /\ iwInState[iwInput] = "closed"
    /\ iwSwapPc' = "closed"
    /\ UNCHANGED <<notIwVars, iwInput, iwInState, iwRelayPc, iwRelayT,
                   iwOutClosed, iwShut, iwDone, iwNewest, iwStale,
                   iwSawClosed>>

\* swapInput(new), called after closeExistingInput has returned.
swapInput ==
    /\ iwSwapPc = "closed"
    /\ iwInput' = IWSwapTarget(iwInput + 1)
    /\ iwInState' = [iwInState EXCEPT ![iwInput + 1] = "running"]
    /\ iwSwapPc' = "idle"
    /\ UNCHANGED <<notIwVars, iwRelayPc, iwRelayT, iwOutClosed, iwShut,
                   iwDone, iwNewest, iwStale, iwSawClosed>>

\* An input that was told to close reports closed; it does so only once no
\* transaction read from it is waiting in the relay to be forwarded.
IWInputClosed(i) ==
    /\ iwInState[i] = "closing"
    /\ ~(iwRelayPc = "forward" /\ iwRelayT = i)
    /\ iwInState' = [iwInState EXCEPT ![i] = "closed"]
    /\ UNCHANGED <<notIwVars, iwInput, iwRelayPc, iwRelayT, iwOutClosed,
                   iwSwapPc, iwShut, iwDone, iwNewest, iwStale, iwSawClosed>>

\* The wrapper's CloseAsync.
IWCloseAsync ==
    /\ iwShut' = TRUE
    /\ UNCHANGED <<notIwVars, iwInput, iwInState, iwRelayPc, iwRelayT,
                   iwOutClosed, iwSwapPc, iwDone, iwNewest, iwStale,
                   iwSawClosed>>

\* What the wrapper's WaitForClose can return in the current state.
IWWaitForClose ==
    IF iwDone THEN {"nil", "ErrTimeout"} ELSE {"ErrTimeout"}

\* The consumer's receive from TransactionChan yields open = false.
IWConsumerSeesClosed ==
    /\ iwOutClosed
    /\ iwSawClosed' = TRUE
    /\ UNCHANGED <<notIwVars, iwInput, iwInState, iwRelayPc, iwRelayT,
                   iwOutClosed, iwSwapPc, iwShut, iwDone, iwNewest, iwStale>>

IWNext ==
    \/ IWRelayRead
    \/ IWRelayInputClosed
    \/ IWRelayForward
    \/ IWRelayShutdown
    \/ IWRelayCloseInput
    \/ IWRelayWaitInput
    \/ IWRelayCloseOut
    \/ IWRelayComplete
    \/ closeExistingInput
    \/ closeExistingInputReturn
    \/ swapInput
    \/ \E i \in Inputs : IWInputClosed(i)
    \/ IWCloseAsync
    \/ IWConsumerSeesClosed

\* The wrapper alone, next to a decorator that is never started.
IWInit == Init /\ ~onError /\ onBackpressure = 0

\* The relay, the inputs and the consumer keep running: an input that has
\* a transaction hands it over, the consumer keeps receiving, a closing
\* input closes, and the caller of closeExistingInput goes on to swapInput.
IWFairness ==
    /\ WF_vars(IWRelayRead)
    /\ WF_vars(IWRelayForward)
    /\ WF_vars(IWRelayShutdown)
    /\ WF_vars(IWRelayCloseInput)
    /\ WF_vars(IWRelayWaitInput)
    /\ WF_vars(IWRelayCloseOut)
    /\ WF_vars(IWRelayComplete)
    /\ WF_vars(closeExistingInputReturn)
    /\ WF_vars(swapInput)
    /\ WF_vars(\E i \in Inputs : IWInputClosed(i))
    /\ WF_vars(IWConsumerSeesClosed)

IWSpec == IWInit /\ [][IWNext]_vars /\ IWFairness

\* ================================================ the websocket writer
\* w.lock is held for the whole of ConnectWithContext, for the read in
\* getWS, for the assignment after a failed write and for the body of the
\* goroutine of CloseAsync: each of these is one step. WriteMessage runs
\* without the lock, between getWS and the return.

\* (mutation) a failed write leaves the stored handle as it is.
AfterWriteErrorKeep(c) == c

\* The stored handle after WriteMessage returned an error: w.client = nil.
AfterWriteError(c) == Nil

\* What WriteWithContext returns for an error of WriteMessage:
\* ErrNotConnected for websocket.ErrCloseSent, the error itself otherwise.
WriteErrors == {"ErrNotConnected", "err"}

\* ConnectWithContext with a handle stored: return nil.
WSConnectStored ==
    /\ wsCPc = "idle"
    /\ wsClient # Nil
    /\ wsCPc' = "done"
    /\ wsCRet' = "nil"
    /\ UNCHANGED <<notWsVars, wsLost, wsClient, wsDials, wsOpen, wsWPc, wsWClient,
                   wsWRet, wsCloseCalled, wsCloser, wsWaitSaw>>

\* ConnectWithContext without a handle: url.Parse, Sign or Dial fails.
WSConnectErr ==
    /\ wsCPc = "idle"
    /\ wsClient = Nil
    /\ wsCPc' = "done"
    /\ wsCRet' = "err"
    /\ UNCHANGED <<notWsVars, wsLost, wsClient, wsDials, wsOpen, wsWPc, wsWClient,
                   wsWRet, wsCloseCalled, wsCloser, wsWaitSaw>>

\* ConnectWithContext without a handle: Dial succeeds, the reader
\* goroutine of the new connection is started and the connection stored.
WSConnectDial ==
    /\ wsCPc = "idle"
    /\ wsClient = Nil
    /\ wsDials < MaxConns
    /\ wsDials' = wsDials + 1
    /\ wsOpen' = wsOpen \cup {wsDials + 1}
    /\ wsClient' = wsDials + 1
    /\ wsCPc' = "done"
    /\ wsCRet' = "nil"
    /\ UNCHANGED <<notWsVars, wsLost, wsWPc, wsWClient, wsWRet, wsCloseCalled,
                   wsCloser, wsWaitSaw>>

\* The caller of ConnectWithContext has its result and may call again.
WSConnectReturn ==
    /\ wsCPc = "done"
    /\ wsCPc' = "idle"
    /\ wsCRet' = "none"
    /\ UNCHANGED <<notWsVars, wsLost, wsClient, wsDials, wsOpen, wsWPc, wsWClient,
                   wsWRet, wsCloseCalled, wsCloser, wsWaitSaw>>

\* WriteWithContext: client := w.getWS(); nil gives ErrNotConnected.
WSWriteGet(w) ==
    /\ wsWPc[w] = "idle"
    /\ IF wsClient = Nil
       THEN /\ wsWPc' = [wsWPc EXCEPT ![w] = "done"]
            /\ wsWRet' = [wsWRet EXCEPT ![w] = "ErrNotConnected"]
            /\ UNCHANGED wsWClient
       ELSE /\ wsWPc' = [wsWPc EXCEPT ![w] = "write"]
            /\ wsWClient' = [wsWClient EXCEPT ![w] = wsClient]
            /\ UNCHANGED wsWRet
    /\ UNCHANGED <<notWsVars, wsLost, wsClient, wsDials, wsOpen, wsCPc, wsCRet,
                   wsCloseCalled, wsCloser, wsWaitSaw>>

\* WriteMessage succeeds for every part: the connection is open.
WSWriteOk(w) ==
    /\ wsWPc[w] = "write"
    /\ wsWClient[w] \in wsOpen
    /\ wsWPc' = [wsWPc EXCEPT ![w] = "done"]
    /\ wsWRet' = [wsWRet EXCEPT ![w] = "nil"]
    /\ wsWClient' = [wsWClient EXCEPT ![w] = Nil]
    /\ UNCHANGED <<notWsVars, wsLost, wsClient, wsDials, wsOpen, wsCPc, wsCRet,
                   wsCloseCalled, wsCloser, wsWaitSaw>>

\* WriteMessage fails (on a closed connection it always does): the stored
\* handle is reset under the lock and the error returned.
WSWriteErr(w) ==
    /\ wsWPc[w] = "write"
    /\ wsClient' = AfterWriteError(wsClient)
    /\ wsLost' = IF wsClient \notin {Nil, wsWClient[w]}
                 THEN wsLost \cup {wsClient} ELSE wsLost
    /\ wsWPc' = [wsWPc EXCEPT ![w] = "done"]
    /\ \E e \in WriteErrors : wsWRet' = [wsWRet EXCEPT ![w] = e]
    /\ wsWClient' = [wsWClient EXCEPT ![w] = Nil]
    /\ UNCHANGED <<notWsVars, wsDials, wsOpen, wsCPc, wsCRet, wsCloseCalled,
                   wsCloser, wsWaitSaw>>

\* The caller of WriteWithContext has its result and may call again.
WSWriteReturn(w) ==
    /\ wsWPc[w] = "done"
    /\ wsWPc' = [wsWPc EXCEPT ![w] = "idle"]
    /\ wsWRet' = [wsWRet EXCEPT ![w] = "none"]
    /\ UNCHANGED <<notWsVars, wsLost, wsClient, wsDials, wsOpen, wsWClient, wsCPc,
                   wsCRet, wsCloseCalled, wsCloser, wsWaitSaw>>

\* The reader goroutine of connection c: NextReader fails (the peer went
\* away) and it closes c. The stored handle is not touched.
WSReaderClose(c) ==
    /\ c \in wsOpen
    /\ wsOpen' = wsOpen \ {c}
    /\ UNCHANGED <<notWsVars, wsLost, wsClient, wsDials, wsWPc, wsWClient, wsWRet,
                   wsCPc, wsCRet, wsCloseCalled, wsCloser, wsWaitSaw>>

\* CloseAsync starts a goroutine and returns.
WSCloseAsync ==
    /\ wsCloser = "none"
    /\ wsCloseCalled' = TRUE
    /\ wsCloser' = "pending"
    /\ UNCHANGED <<notWsVars, wsLost, wsClient, wsDials, wsOpen, wsWPc, wsWClient,
                   wsWRet, wsCPc, wsCRet, wsWaitSaw>>

\* The goroutine of CloseAsync: under the lock, close and forget the
\* stored connection if there is one.
WSCloserRun ==
    /\ wsCloser = "pending"
    /\ wsOpen' = wsOpen \ {wsClient}
    /\ wsClient' = Nil
    /\ wsCloser' = "done"
    /\ UNCHANGED <<notWsVars, wsLost, wsDials, wsWPc, wsWClient, wsWRet, wsCPc,
                   wsCRet, wsCloseCalled, wsWaitSaw>>

\* WaitForClose: return nil. When CloseAsync was called before, record
\* whether the shutdown it started is complete at that moment.
WSWaitForClose ==
    /\ wsCloseCalled
    /\ wsWaitSaw' = IF wsCloser = "done" /\ wsClient = Nil
                    THEN "closed" ELSE "unclosed"
    /\ UNCHANGED <<notWsVars, wsLost, wsClient, wsDials, wsOpen, wsWPc, wsWClient,
                   wsWRet, wsCPc, wsCRet, wsCloseCalled, wsCloser>>

WSNext ==
    \/ WSConnectStored
    \/ WSConnectErr
    \/ WSConnectDial
    \/ WSConnectReturn
    \/ \E w \in Writers : WSWriteGet(w)
    \/ \E w \in Writers : WSWriteOk(w)
    \/ \E w \in Writers : WSWriteErr(w)
    \/ \E w \in Writers : WSWriteReturn(w)
    \/ \E c \in Conns : WSReaderClose(c)
    \/ WSCloseAsync
    \/ WSCloserRun
    \/ WSWaitForClose

\* The websocket writer on its own: the other components stay as built.
WSSpec == IWInit /\ [][WSNext]_vars

\* ==================================================== the AsyncWriter
\* Each worker loop cycles: if not connected, Connect, retrying on failure;
\* once connected, pull the next transaction and Write it; acknowledge
\* success when Write succeeded; when it failed, drop the connection and
\* acknowledge failure.

\* (mutation) every transaction is acknowledged as a success.
AckForAlwaysOk(r) == "ok"

\* The acknowledgement for a transaction whose Write returned r.
AckFor(r) == r

\* A producer submits the next transaction.
AWSubmit ==
    /\ awSubmitted < MaxTx
    /\ awSubmitted' = awSubmitted + 1
    /\ awPending' = awPending \cup {awSubmitted + 1}
    /\ awOutage' = IF awEverConn THEN awOutage
                   ELSE awOutage \cup {awSubmitted + 1}
    /\ UNCHANGED <<notAwVars, awPc, awConn, awT, awWRes, awFails, awEverConn,
                   awWritten, awAck, awShut>>

\* Connect fails: the worker backs off and tries again.
AWConnectFail(w) ==
    /\ awPc[w] = "connect"
    /\ ~awShut
    /\ awFails < MaxConnFails
    /\ awFails' = awFails + 1
    /\ UNCHANGED <<notAwVars, awPc, awConn, awT, awWRes, awEverConn,
                   awSubmitted, awPending, awOutage, awWritten, awAck, awShut>>

\* Connect succeeds.
AWConnectOk(w) ==
    /\ awPc[w] = "connect"
    /\ ~awShut
    /\ awConn' = [awConn EXCEPT ![w] = TRUE]
    /\ awEverConn' = TRUE
    /\ awPc' = [awPc EXCEPT ![w] = "pull"]
    /\ UNCHANGED <<notAwVars, awT, awWRes, awFails, awSubmitted, awPending,
                   awOutage, awWritten, awAck, awShut>>

\* A connected worker pulls the next transaction.
AWPull(w) ==
    /\ awPc[w] = "pull"
    /\ ~awShut
    /\ \E t \in awPending :
        /\ awT' = [awT EXCEPT ![w] = t]
        /\ awPending' = awPending \ {t}
    /\ awPc' = [awPc EXCEPT ![w] = "write"]
    /\ UNCHANGED <<notAwVars, awConn, awWRes, awFails, awEverConn,
                   awSubmitted, awOutage, awWritten, awAck, awShut>>

\* Write returns success.
AWWriteOk(w) ==
    /\ awPc[w] = "write"
    /\ awWRes' = [awWRes EXCEPT ![w] = "ok"]
    /\ awWritten' = [awWritten EXCEPT ![awT[w]] = "ok"]
    /\ awPc' = [awPc EXCEPT ![w] = "ack"]
    /\ UNCHANGED <<notAwVars, awConn, awT, awFails, awEverConn, awSubmitted,
                   awPending, awOutage, awAck, awShut>>

\* Write returns an error: the worker drops its connection.
AWWriteFail(w) ==
    /\ awPc[w] = "write"
    /\ awWRes' = [awWRes EXCEPT ![w] = "fail"]
    /\ awWritten' = [awWritten EXCEPT ![awT[w]] = "fail"]
    /\ awConn' = [awConn EXCEPT ![w] = FALSE]
    /\ awPc' = [awPc EXCEPT ![w] = "ack"]
    /\ UNCHANGED <<notAwVars, awT, awFails, awEverConn, awSubmitted,
                   awPending, awOutage, awAck, awShut>>

\* The worker acknowledges the transaction it holds and goes on: to the
\* next pull when it is still connected, to Connect otherwise.
AWAck(w) ==
    /\ awPc[w] = "ack"
    /\ awAck' = [awAck EXCEPT ![awT[w]] = Append(@, AckFor(awWRes[w]))]
    /\ awT' = [awT EXCEPT ![w] = Nil]
    /\ awWRes' = [awWRes EXCEPT ![w] = "none"]
    /\ awPc' = [awPc EXCEPT ![w] = IF awConn[w] THEN "pull" ELSE "connect"]
    /\ UNCHANGED <<notAwVars, awConn, awFails, awEverConn, awSubmitted,
                   awPending, awOutage, awWritten, awShut>>

\* CloseAsync cancels the workers' contexts.
AWCloseAsync ==
    /\ ~awShut
    /\ awShut' = TRUE
    /\ UNCHANGED <<notAwVars, awPc, awConn, awT, awWRes, awFails, awEverConn,
                   awSubmitted, awPending, awOutage, awWritten, awAck>>

\* A cancelled worker that holds no transaction closes its connection and
\* exits.
AWExit(w) ==
    /\ awShut
    /\ awPc[w] \in {"connect", "pull"}
    /\ awConn' = [awConn EXCEPT ![w] = FALSE]
    /\ awPc' = [awPc EXCEPT ![w] = "closed"]
    /\ UNCHANGED <<notAwVars, awT, awWRes, awFails, awEverConn, awSubmitted,
                   awPending, awOutage, awWritten, awAck, awShut>>

AWNext ==
    \/ AWSubmit
    \/ \E w \in Workers : AWConnectFail(w)
    \/ \E w \in Workers : AWConnectOk(w)
    \/ \E w \in Workers : AWPull(w)
    \/ \E w \in Workers : AWWriteOk(w)
    \/ \E w \in Workers : AWWriteFail(w)
    \/ \E w \in Workers : AWAck(w)
    \/ AWCloseAsync
    \/ \E w \in Workers : AWExit(w)

\* Every worker loop keeps running: a Connect attempt returns, a pull
\* happens when a transaction is waiting, a Write returns, an
\* acknowledgement is delivered.
AWFairness ==
    \A w \in Workers :
        /\ WF_vars(AWConnectFail(w) \/ AWConnectOk(w))
        /\ WF_vars(AWPull(w))
        /\ WF_vars(AWWriteOk(w) \/ AWWriteFail(w))
        /\ WF_vars(AWAck(w))
        /\ WF_vars(AWExit(w))

\* The AsyncWriter on its own: the other components stay as built.
AWSpec == IWInit /\ [][AWNext]_vars /\ AWFairness

\* ===================================================== the cache writer
\* One part of a batch, as the writer sees it: what the key and the ttl
\* expressions evaluate to for it.
Parts == [key : Keys, ttl : TTLStrings]

\* The batches a caller may pass: one part or more.
Batches == UNION {[1..n -> Parts] : n \in 1..MaxParts}

\* time.ParseDuration succeeds on ttls.
ParseDurationOk(ttls) == ttls = "1s"

\* The ttl of part p is in error: a non-empty string that is no duration.
TTLError(p) == p.ttl # "" /\ ~ParseDurationOk(p.ttl)

\* (mutation) msg.Iter goes on after an error of its callback.
IterStopsNever(bad) == FALSE

\* msg.Iter stops at the first part whose callback returns an error.
IterStops(bad) == bad

\* (mutation) a key already in the map keeps its item.
PutItemFirst(items, k, i) ==
    IF items[k] # Nil THEN items ELSE [items EXCEPT ![k] = i]

\* items[key] = cache.TTLItem{...}: a map assignment.
PutItem(items, k, i) == [items EXCEPT ![k] = i]

\* What the cache returns from Set and SetMulti.
CacheResults == {"nil", "cacheErr"}

\* WriteWithContext(msg), AccessCache fails: the closure is not run and the
\* error of AccessCache is returned.
CWNoAccess(msg) ==
    /\ cwPc \in {"idle", "done"}
    /\ cwMsg' = msg
    /\ cwI' = 0
    /\ cwItems' = [k \in Keys |-> Nil]
    /\ cwSetMulti' = <<>>
    /\ cwSet' = <<>>
    /\ cwRet' = "cerr"
    /\ cwPc' = "done"
    /\ UNCHANGED notCwVars

\* WriteWithContext(msg) with msg.Len() > 1: writeMulti, AccessCache runs
\* the closure, which starts with an empty items map.
CWWriteMulti(msg) ==
    /\ cwPc \in {"idle", "done"}
    /\ Len(msg) > 1
    /\ cwMsg' = msg
    /\ cwI' = 1
    /\ cwItems' = [k \in Keys |-> Nil]
    /\ cwSetMulti' = <<>>
    /\ cwSet' = <<>>
    /\ cwRet' = "none"
    /\ cwPc' = "iter"
    /\ UNCHANGED notCwVars

\* The callback of msg.Iter for part cwI: a ttl in error ends the
\* iteration and the call with the 'ttl field' error; otherwise the part
\* is put into items under its key.
CWIterPart ==
    /\ cwPc = "iter"
    /\ cwI <= Len(cwMsg)
    /\ IF IterStops(TTLError(cwMsg[cwI]))
       THEN /\ cwRet' = "ttl field"
            /\ cwPc' = "done"
            /\ UNCHANGED <<cwI, cwItems>>
       ELSE /\ cwItems' = PutItem(cwItems, cwMsg[cwI].key, cwI)
            /\ cwI' = cwI + 1
            /\ UNCHANGED <<cwRet, cwPc>>
    /\ UNCHANGED <<notCwVars, cwMsg, cwSetMulti, cwSet>>

\* msg.Iter returned nil: err = ac.SetMulti(ctx, items).
CWSetMulti ==
    /\ cwPc = "iter"
    /\ cwI > Len(cwMsg)
    /\ cwSetMulti' = Append(cwSetMulti, cwItems)
    /\ \E r \in CacheResults : cwRet' = r
    /\ cwPc' = "done"
    /\ UNCHANGED <<notCwVars, cwMsg, cwI, cwItems, cwSet>>

\* WriteWithContext(msg) with one part, AccessCache runs the closure: a
\* ttl in error returns the 'ttl field' error, otherwise cache.Set.
CWWriteOne(msg) ==
    /\ cwPc \in {"idle", "done"}
    /\ Len(msg) = 1
    /\ cwMsg' = msg
    /\ cwI' = 0
    /\ cwItems' = [k \in Keys |-> Nil]
    /\ cwSetMulti' = <<>>
    /\ IF TTLError(msg[1])
       THEN /\ cwRet' = "ttl field"
            /\ cwSet' = <<>>
       ELSE /\ cwSet' = <<1>>
            /\ \E r \in CacheResults : cwRet' = r
    /\ cwPc' = "done"
    /\ UNCHANGED notCwVars

CWNext ==
    \/ \E msg \in Batches : CWNoAccess(msg)
    \/ \E msg \in Batches : CWWriteMulti(msg)
    \/ CWIterPart
    \/ CWSetMulti
    \/ \E msg \in Batches : CWWriteOne(msg)

\* The cache writer on its own: the other components stay as built.
CWSpec == IWInit /\ [][CWNext]_vars

\* ========================================================= the HTTP API
\* A route of the router: the pattern it matches and the path whose
\* current handler its wrapHandler looks up in t.handlers.
Route(pat, path) == [pat |-> pat, path |-> path]

\* The two routes RegisterEndpoint adds for a path that has no handler
\* yet: t.mux.HandleFunc(path, ...), t.mux.HandleFunc(RootPath+path, ...).
NewRoutes(path) == <<Route(path, path), Route(RootPath \o path, path)>>

\* RegisterEndpoint(path, desc, handlerFunc), under both locks.
RegisterEndpoint(path, desc, handlerFunc) ==
    /\ apiEndpoints' = [apiEndpoints EXCEPT ![path] = desc]
    /\ apiMux' = IF apiHandlers[path] = Absent
                 THEN apiMux \o NewRoutes(path)
                 ELSE apiMux
    /\ apiHandlers' = [apiHandlers EXCEPT ![path] = handlerFunc]
    /\ apiLatest' = [apiLatest EXCEPT ![path] = handlerFunc]
    /\ UNCHANGED notRegVars

\* The router serves a request for pattern req with the first route added
\* that matches it; its wrapHandler calls t.handlers[path]. Absent: not found.
Dispatch(req) ==
    LET hits == {i \in 1..Len(apiMux) : apiMux[i].pat = req}
    IN IF hits = {} THEN Absent
       ELSE LET first == CHOOSE i \in hits : \A j \in hits : i <= j
            IN apiHandlers[apiMux[first].path]

RegNext ==
    \E path \in Paths, desc \in Descs, handlerFunc \in HandlerFuncs :
        RegisterEndpoint(path, desc, handlerFunc)

\* The endpoint registry on its own: the other components stay as built.
RegSpec == IWInit /\ [][RegNext]_vars

\* ------------------------------------------------------- properties
ExitPcs == {"closeOut", "closeAsync", "waitChild", "closeClosed", "done"}

\* The loop holds t and has not yet finished with it.
InFlight(t) == t = ts /\ pc \in {"send", "trysend", "wait", "ack"}

\* The loop has received t and is done with it.
Settled(t) == t \in 1..sent /\ ~InFlight(t)

\* The loop returned on <-d.ctx.Done() while it held t.
Abandoned(t) == t = ts /\ pc \in ExitPcs /\ ctxDone

DropAck == IF onError THEN ResNil ELSE ResBackPressure

C3_OnErrorAlwaysSuccess ==
    onError =>
        /\ pc = "ack" => res = ResNil
        /\ \A t \in Txs : \A i \in 1..Len(ackLog[t]) :
            ackLog[t][i].res = ResNil

C3_Witness ==
    /\ onError
    /\ pc = "ack"
    /\ childRes = ResChildErr
    /\ res = ResNil
    /\ \E t \in Txs : Len(ackLog[t]) = 1

\* C4: after a back pressure drop and until the child accepts a send, each
\* received transaction goes to the non-blocking select; from there the
\* next step of the loop either hands the transaction to a child that is
\* receiving at that instant (which clears the sticky state) or drops it at
\* once; without a preceding drop the blocking select is used.
C4_Sticky ==
    /\ [](pc = "trysend" => sticky /\ gotBackPressure)
    /\ [](pc = "send" => ~sticky /\ ~gotBackPressure)
    /\ [][sent' = sent + 1 =>
            pc' = IF sticky THEN "trysend" ELSE "send"]_vars
    /\ [][pc = "trysend" /\ pc' # pc =>
            \/ /\ childRecv
               /\ pc' = "wait"
               /\ ts \in childPending'
               /\ ~sticky' /\ ~gotBackPressure'
            \/ /\ ~childRecv
               /\ pc' = "ack"
               /\ ts \in dropped'
               /\ sticky' /\ gotBackPressure']_vars

C4_Witness ==
    /\ dropped = {1, 2}
    /\ childGot[1] = 0
    /\ childGot[2] = 0
    /\ ts = 2
    /\ pc = "ack"
    /\ gotBackPressure

\* C5: with onBackpressure = 0 nothing is dropped; an acknowledgement is
\* handed to ts.Ack only for a transaction the child accepted, after the
\* child's result for that very transaction was received, and it carries
\* that result (success instead when onError is set).
C5_NoDropWhenDisabled ==
    onBackpressure = 0 =>
        /\ dropped = {}
        /\ reclaim = 0
        /\ ~gotBackPressure
        /\ pc # "trysend"
        /\ pc = "ack" =>
            /\ childGot[ts] = 1
            /\ resFrom = ts
            /\ childRes \in ChildResults
            /\ res = IF onError THEN ResNil ELSE childRes
        /\ \A t \in Txs : \A i \in 1..Len(ackLog[t]) :
            ackLog[t][i].from = t /\ childGot[t] = 1

C5_Witness ==
    /\ onBackpressure = 0
    /\ ~onError
    /\ \E t \in Txs : Len(ackLog[t]) = 1 /\ ackLog[t][1].res = ResChildErr
    /\ \E t \in Txs : Len(ackLog[t]) = 1 /\ ackLog[t][1].res = ResNil

\* C6: once a call of Consume has returned nil, every call returns
\* ErrAlreadyStarted without calling the child's Consume and leaves the
\* inbound channel, the child and the loop alone; there is never more than
\* one loop; before that, a call that fails returns the child's error and
\* leaves the decorator unstarted.
C6_ConsumeOnce ==
    /\ [](loops <= 1)
    /\ [](consumeRet = "ErrAlreadyStarted" => consumeOk /\ ~consumeChild)
    /\ [][consumeOk =>
            /\ UNCHANGED <<transactionsIn, loops, childStarted, consumeOk>>
            /\ <<consumeRet, consumeChild>>' # <<consumeRet, consumeChild>> =>
                consumeRet' = "ErrAlreadyStarted" /\ ~consumeChild']_vars
    /\ [](~consumeOk =>
            /\ consumeRet \in {"none", "childErr"}
            /\ consumeChild <=> consumeRet = "childErr"
            /\ transactionsIn = Nil
            /\ loops = 0
            /\ pc = "none")

C6_Witness ==
    /\ consumeOk
    /\ consumeRet = "ErrAlreadyStarted"
    /\ ~consumeChild
    /\ loops = 1
    /\ sent > 0

\* C7 (as stated): the decorator is closed only once the child output has
\* fully closed.
C7_ClosedOnlyAfterChildClosed ==
    closedChan => childClosed

ShutdownOrder == <<"closeOut", "closeAsync", "waitChild", "closeClosed">>

\* C7 (amended): the loop's shutdown steps happen in the order close of
\* the channel to the child, child CloseAsync, child WaitForClose, close
\* of closedChan; WaitForClose of the decorator can return nil only after
\* the child's WaitForClose has returned, which it does with nil only if
\* the child has fully closed and with a discarded timeout otherwise.
C7_ShutdownOrder ==
    /\ Len(shutLog) <= 4
    /\ shutLog = SubSeq(ShutdownOrder, 1, Len(shutLog))
    /\ outClosed <=> Len(shutLog) >= 1
    /\ childCloseAsync = (IF Len(shutLog) >= 2 THEN 1 ELSE 0)
    /\ childWaitRet # "none" <=> Len(shutLog) >= 3
    /\ closedChan <=> Len(shutLog) = 4
    /\ childWaitRet = "nil" => childClosed
    /\ "nil" \in WaitForClose => childWaitRet # "none"

C7_Witness ==
    /\ "nil" \in WaitForClose
    /\ childWaitRet = "nil"
    /\ childClosed

\* C8: once CloseAsync has been called on a started instance the closed
\* signal is eventually raised, wherever the loop is; a cancellation is
\* never undone by a later call.
C8_BoundedShutdown ==
    /\ (ctxDone /\ pc # "none") ~> closedChan
    /\ [][ctxDone => ctxDone']_vars

C8_Witness ==
    /\ ctxDone
    /\ closedChan
    /\ ts # Nil
    /\ Len(ackLog[ts]) = 0
    /\ childGot[ts] = 1

\* C9: however many closeExistingInput/swapInput cycles take place, the
\* outbound channel is closed, and seen closed by the consumer, only after
\* the wrapper's CloseAsync; a swap never closes it; and once the consumer
\* has seen it closed WaitForClose comes to return nil.
C9_StableChannel ==
    /\ [](iwOutClosed => iwShut)
    /\ [](iwSawClosed => iwShut /\ iwOutClosed)
    /\ [][iwInput' # iwInput \/ iwSwapPc' # iwSwapPc =>
            iwOutClosed' = iwOutClosed]_vars
    /\ iwSawClosed ~> ("nil" \in IWWaitForClose)

C9_Witness ==
    /\ iwInput = MaxInputs
    /\ iwNewest = MaxInputs
    /\ iwSawClosed
    /\ "nil" \in IWWaitForClose

\* C10: once swapInput(new) has been called the consumer eventually gets
\* a transaction of the new input, unless the wrapper is closed or the new
\* input is itself told to close first; and no transaction of an older
\* input is received after one of a newer input.
C10_SwapDelivers ==
    /\ []~iwStale
    /\ \A k \in Inputs \ {1} :
        (iwInState[k] = "running") ~>
            (iwNewest >= k \/ iwShut \/ iwInState[k] # "running")

C10_Witness ==
    /\ iwInput = 2
    /\ iwInState[1] = "closed"
    /\ iwNewest = 2
    /\ ~iwShut

\* The acknowledgement of t, when it has one.
AckOf(t) == ackLog[t][1]

\* C14 (as stated): the result the loop uses for the transaction it holds
\* is either its own drop decision or the child's result for that same
\* transaction, never the child's result for an earlier one.
C14_OwnResultOnly ==
    /\ pc = "ack" => resFrom \in {Nil, ts}
    /\ \A t \in Txs : \A i \in 1..Len(ackLog[t]) :
           ackLog[t][i].from \in {Nil, t}

\* C15: the sticky flag is clear until the first transaction; it goes from
\* clear to set only in a step where the timer fires in the send or in the
\* wait select (the transaction is dropped and the loop goes on to
\* acknowledge); it goes from set to clear only in a step where the child
\* accepts the non-blocking send; and CloseAsync, Consume and the reclaim
\* goroutines never change it.
C15_StickyFlag ==
    /\ [](sent = 0 => ~gotBackPressure)
    /\ [][(~gotBackPressure /\ gotBackPressure') =>
            /\ pc \in {"send", "wait"}
            /\ BackPressureEnabled
            /\ pc' = "ack"
            /\ ts \in dropped']_vars
    /\ [][(gotBackPressure /\ ~gotBackPressure') =>
            /\ pc = "trysend"
            /\ childRecv
            /\ pc' = "wait"
            /\ childGot'[ts] = childGot[ts] + 1]_vars
    /\ [][(ctxDone' # ctxDone \/ reclaim' < reclaim
              \/ consumeRet' # consumeRet \/ consumeChild' # consumeChild) =>
            gotBackPressure' = gotBackPressure]_vars

C15_Witness ==
    /\ ~gotBackPressure
    /\ 1 \in dropped
    /\ ts = 2
    /\ pc = "wait"
    /\ childGot[2] = 1

\* C16: the loop receives the next transaction only when every earlier one
\* has been acknowledged upstream, and the transactions the child received
\* are, in order, a subsequence of the transactions received from upstream.
C16_OneAtATime ==
    /\ [][sent' # sent =>
            /\ sent' = sent + 1
            /\ \A t \in 1..sent : Len(ackLog[t]) = 1]_vars
    /\ [](\A i \in 1..Len(childLog) : childLog[i] \in 1..sent)
    /\ [](\A i, j \in 1..Len(childLog) : i < j => childLog[i] < childLog[j])

C16_Witness ==
    /\ sent = 2
    /\ childLog = <<2>>
    /\ Len(ackLog[1]) = 1
    /\ 1 \in dropped

\* C17: the child receives every transaction at most once, and a
\* transaction whose send did not complete is never received by the child.
C17_NoLateDelivery ==
    \A t \in Txs :
        /\ childGot[t] <= 1
        /\ t \in unsent =>
              /\ childGot[t] = 0
              /\ \A i \in 1..Len(childLog) : childLog[i] # t

C17_Witness ==
    /\ 1 \in unsent
    /\ Len(ackLog[1]) = 1
    /\ childLog = <<2>>
    /\ Len(ackLog[2]) = 1

\* C18 (as stated): without onError a transaction acknowledged with the
\* back pressure failure is never reported as written by the child.
C18_DroppedNeverWritten ==
    ~onError =>
        \A t \in Txs :
            (Len(ackLog[t]) > 0 /\ AckOf(t).res = ResBackPressure) =>
                t \notin childOk

\* C18 (amended): without onError a transaction acknowledged with the back
\* pressure failure was dropped by the loop; if its send did not complete
\* the child never receives it and never reports it as written; if the
\* child does report it as written, the child had accepted it before the
\* timer fired in the wait for its result.
C18_UnsentNeverWritten ==
    ~onError =>
        \A t \in Txs :
            /\ t \in unsent => (childGot[t] = 0 /\ t \notin childOk)
            /\ (Len(ackLog[t]) > 0 /\ AckOf(t).res = ResBackPressure) =>
                  /\ t \in dropped
                  /\ AckOf(t).from = Nil
                  /\ t \in childOk => (childGot[t] = 1 /\ t \notin unsent)

C18_Witness ==
    /\ ~onError
    /\ Len(ackLog[1]) = 1
    /\ AckOf(1).res = ResBackPressure
    /\ 1 \in childOk
    /\ Len(ackLog[2]) = 1
    /\ AckOf(2).res = ResBackPressure
    /\ 2 \in unsent

\* C19: while CloseAsync has not been called the transactions the child
\* still owes a result for are as many as the receivers on the result
\* channel (the reclaim goroutines, plus the loop when it waits), and a
\* reclaim goroutine is started only in the wait for the result of a
\* transaction the child accepted.
C19_OneReceiverPerResult ==
    /\ [](~ctxDone =>
            Cardinality(childPending) =
                reclaim + (IF pc = "wait" THEN 1 ELSE 0))
    /\ [][reclaim' > reclaim =>
            /\ reclaim' = reclaim + 1
            /\ pc = "wait"
            /\ childGot[ts] = 1]_vars

C19_Witness ==
    /\ ~ctxDone
    /\ reclaim = 1
    /\ pc = "wait"
    /\ childPending = {1, 2}

\* The number of times the channel to the child was closed.
OutCloses == Cardinality({i \in 1..Len(shutLog) : shutLog[i] = "closeOut"})

\* C20: the loop leaves its body only into the deferred shutdown, on a
\* closed inbound channel as on cancellation; the channel to the child is
\* closed at most once, it is closed whenever the closed signal is raised,
\* nothing is sent on it once it is closed; and a loop that finds the
\* inbound channel closed ends with the child told to close, awaited, and
\* the closed signal raised.
C20_InboundCloseShutsDown ==
    /\ [][(pc \notin ExitPcs /\ pc' \in ExitPcs) => pc' = "closeOut"]_vars
    /\ [](OutCloses <= 1 /\ (outClosed <=> OutCloses = 1))
    /\ [](closedChan => outClosed /\ shutLog = ShutdownOrder)
    /\ [][childGot' # childGot => ~outClosed /\ ~outClosed']_vars
    /\ (pc = "recv" /\ inClosed) ~>
           (closedChan /\ childCloseAsync > 0 /\ childWaitRet # "none")

C20_Witness ==
    /\ inClosed
    /\ ~ctxDone
    /\ closedChan
    /\ outClosed
    /\ childClosed
    /\ sent = MaxTx

\* C12: a WriteWithContext call that ends with an error after WriteMessage
\* leaves the stored handle nil; a call made while the handle is nil
\* returns ErrNotConnected without touching a connection; the handle goes
\* from nil to a connection only in a ConnectWithContext that dials a new
\* one and returns nil; and a ConnectWithContext made while a handle is
\* stored returns nil and changes neither the handle nor the connections.
C12_WriteFailureForcesReconnect ==
    /\ [][\A w \in Writers :
            (wsWPc[w] = "write" /\ wsWPc'[w] = "done" /\ wsWRet'[w] # "nil")
                => wsClient' = Nil]_vars
    /\ [][\A w \in Writers :
            (wsClient = Nil /\ wsWPc[w] = "idle" /\ wsWPc'[w] # "idle") =>
                /\ wsWPc'[w] = "done"
                /\ wsWRet'[w] = "ErrNotConnected"
                /\ wsClient' = Nil
                /\ wsOpen' = wsOpen]_vars
    /\ [][(wsClient = Nil /\ wsClient' # Nil) =>
            /\ wsCPc = "idle" /\ wsCPc' = "done" /\ wsCRet' = "nil"
            /\ wsDials' = wsDials + 1
            /\ wsClient' = wsDials'
            /\ wsClient' \in wsOpen']_vars
    /\ [][(wsClient # Nil /\ wsCPc = "idle" /\ wsCPc' = "done") =>
            /\ wsCRet' = "nil"
            /\ wsClient' = wsClient
            /\ wsDials' = wsDials
            /\ wsOpen' = wsOpen]_vars

\* A write failed on the first connection, a write made before the next
\* connect returned ErrNotConnected, and the next connect dialled a second
\* connection.
C12_Witness ==
    /\ wsClient = 2
    /\ wsDials = 2
    /\ wsWRet[1] = "err"
    /\ wsWRet[2] = "ErrNotConnected"
    /\ wsCPc = "done"
    /\ wsCRet = "nil"

\* C13 (as stated): when WaitForClose returns nil after CloseAsync the
\* shutdown CloseAsync started is complete: its goroutine has run and the
\* stored handle is nil.
C13_WaitForCloseAfterShutdown == wsWaitSaw # "unclosed"

\* C11 (as stated): a transaction submitted while Connect was still
\* failing is never acknowledged as a failure (it has at most one
\* acknowledgement, so one acknowledged as a failure is never acknowledged
\* as a success).
C11_OutageAlwaysSuccess ==
    \A t \in awOutage : \A i \in 1..Len(awAck[t]) : awAck[t][i] # "fail"

\* C11 (amended): no transaction is acknowledged before a Connect has
\* succeeded, and a failed Connect acknowledges nothing; a transaction is
\* acknowledged at most once, as a success only when Write returned
\* success for it and as a failure only when Write returned an error for
\* it; and every transaction submitted before the first successful Connect
\* is eventually acknowledged, unless CloseAsync is called first.
C11_ReconnectAcks ==
    /\ [](~awEverConn => \A t \in Txs : awAck[t] = <<>>)
    /\ [][awFails' # awFails => awAck' = awAck]_vars
    /\ [](\A t \in Txs :
            /\ Len(awAck[t]) <= 1
            /\ \A i \in 1..Len(awAck[t]) : awAck[t][i] = awWritten[t])
    /\ \A t \in Txs :
          (t \in awOutage) ~> (Len(awAck[t]) = 1 \/ awShut)

\* Connect failed as often as it may, every transaction was submitted in
\* the meantime, and all of them have been acknowledged as successes.
C11_Witness ==
    /\ awFails = MaxConnFails
    /\ awOutage = Txs
    /\ \A t \in Txs : awAck[t] = <<"ok">>
    /\ ~awShut

\* C21 (as stated): once CloseAsync has been called, whether or not Consume
\* was called before, WaitForClose eventually returns nil.
C21_CloseAsyncLeadsToClosed == ctxDone ~> ("nil" \in WaitForClose)

\* The parts of the batch of the current call.
CWParts == 1..Len(cwMsg)

\* The call has returned, and AccessCache had run its closure.
CWReturned == cwPc = "done" /\ cwRet # "cerr"

\* C22: for a returned call on a batch of more than one part (with the
\* cache accessible): if some part's ttl is in error the 'ttl field' error
\* is returned and neither SetMulti nor Set was called; otherwise SetMulti
\* was called exactly once and Set not at all. For a batch of one part:
\* Set was called exactly once, or not at all when its ttl is in error.
\* SetMulti is never called more than once and never while parts are still
\* being evaluated.
C22_AllOrNothingTTL ==
    /\ Len(cwSetMulti) <= 1
    /\ cwPc = "iter" => (cwSetMulti = <<>> /\ cwSet = <<>>)
    /\ (CWReturned /\ Len(cwMsg) > 1) =>
          IF \E i \in CWParts : TTLError(cwMsg[i])
          THEN cwRet = "ttl field" /\ cwSetMulti = <<>> /\ cwSet = <<>>
          ELSE cwRet # "ttl field" /\ Len(cwSetMulti) = 1 /\ cwSet = <<>>
    /\ (CWReturned /\ Len(cwMsg) = 1) =>
          IF TTLError(cwMsg[1])
          THEN cwRet = "ttl field" /\ cwSet = <<>> /\ cwSetMulti = <<>>
          ELSE cwRet # "ttl field" /\ cwSet = <<1>> /\ cwSetMulti = <<>>

\* A batch of three parts whose last ttl is in error: nothing was stored.
C22_Witness ==
    /\ cwPc = "done"
    /\ Len(cwMsg) = MaxParts
    /\ ~TTLError(cwMsg[1])
    /\ TTLError(cwMsg[MaxParts])
    /\ cwRet = "ttl field"
    /\ cwSetMulti = <<>>

\* The number of items of a map given to SetMulti.
ItemCount(items) == Cardinality({k \in Keys : items[k] # Nil})

\* C23 (as stated): when the call for a batch of n > 1 parts returns nil,
\* the SetMulti call carried n items.
C23_OneItemPerPart ==
    (cwPc = "done" /\ cwRet = "nil" /\ Len(cwMsg) > 1) =>
        /\ Len(cwSetMulti) = 1
        /\ ItemCount(cwSetMulti[1]) = Len(cwMsg)

\* C23 (amended): when the call for a batch of n > 1 parts returns nil, the
\* SetMulti call carried one item per distinct key of the batch, and the
\* item of a key is the last part that evaluates to that key.
C23_OneItemPerKey ==
    (cwPc = "done" /\ cwRet = "nil" /\ Len(cwMsg) > 1) =>
        /\ Len(cwSetMulti) = 1
        /\ \A k \in Keys :
              LET ps == {i \in CWParts : cwMsg[i].key = k}
              IN IF ps = {} THEN cwSetMulti[1][k] = Nil
                 ELSE /\ cwSetMulti[1][k] \in ps
                      /\ \A i \in ps : i <= cwSetMulti[1][k]

\* Three parts, the first and the last under the same key, written with
\* success: two items.
C23_Witness ==
    /\ cwPc = "done"
    /\ cwRet = "nil"
    /\ Len(cwMsg) = 3
    /\ cwMsg[1].key = cwMsg[3].key
    /\ cwMsg[2].key # cwMsg[1].key
    /\ Len(cwSetMulti) = 1
    /\ ItemCount(cwSetMulti[1]) = 2

\* C24 (as stated): a failed WriteWithContext never resets the stored
\* handle while it refers to a connection other than the one that write
\* used.
C24_NeverDiscardsNewer == wsLost = {}

\* C25 (as stated): for every registered path, a request to the path and a
\* request to RootPath+path are both served by the handler most recently
\* registered for that path, and endpoints and handlers have the same keys.
C25_DispatchesToLatest ==
    \A p \in Paths :
        /\ (apiEndpoints[p] # Absent) <=> (apiHandlers[p] # Absent)
        /\ apiLatest[p] # Absent =>
              /\ Dispatch(p) = apiLatest[p]
              /\ Dispatch(RootPath \o p) = apiLatest[p]

====
